---- MODULE Spec2Model ----
(***************************************************************************)
(* Model of benchmark_sqlite_params.py: a timeit benchmark that inserts    *)
(* generated rows into one table with two strategies (multi-row VALUES     *)
(* statements vs. executemany), verifies the stored data and cleans up.    *)
(*                                                                         *)
(* Strings are sequences of ASCII codes, so that formatting, length and    *)
(* lexicographic order are computed and not assumed.  The table is a bag   *)
(* of rows; a row is the sequence of its cell values in column order.      *)
(* "table" is the committed content of mytable, "txn" is the content as    *)
(* seen by the open session (committed content plus uncommitted changes).  *)
(***************************************************************************)
EXTENDS Integers, Sequences, FiniteSets, Bags, TLC

\* ---------------------------------------------------------------- bounds
MaxRows == 11
MaxCols == 2
MaxBufferSize == 4
MaxTimeitNumber == 2
MaxTimeitRepeat == 2
MaxLeftover == 1

VARIABLES
    number_of_cols, number_of_rows, timeit_number, timeit_repeat, buffer_size,
    pc,            \* position in benchmark()
    stmt,          \* index of the strategy of the current for-iteration
    col_pad, row_pad,
    columns,       \* table.columns: sequence of [name, width]
    rows,          \* the generated rows
    tableExists,   \* mytable exists in the store
    table,         \* committed content of mytable
    txn,           \* content of mytable as seen by the open session
    openSessions,  \* number of sessions that are open
    buffer, idx,   \* locals of the running insert_values_* call
    rep, num,      \* timeit.repeat: finished trials, finished calls of the trial
    res,           \* number of timings timeit.repeat has recorded
    flushLog,      \* buffers handed to session.execute by the running call
    commits,       \* session.commit() calls of the running call
    exc,           \* the exception that is propagating, or "none"
    started,       \* strategies whose timing harness has been entered
    verified,      \* strategies for which check_and_clean returned normally
    printed,       \* strategies whose timings have been printed
    observed       \* per strategy: content the harness left for check_and_clean

vars == <<number_of_cols, number_of_rows, timeit_number, timeit_repeat,
          buffer_size, pc, stmt, col_pad, row_pad, columns, rows, tableExists,
          table, txn, openSessions, buffer, idx, rep, num, res, flushLog,
          commits, exc, started, verified, printed, observed>>

config == <<number_of_cols, number_of_rows, timeit_number, timeit_repeat,
            buffer_size>>
schema == <<col_pad, row_pad, columns, rows>>
callLocals == <<buffer, idx, flushLog, commits>>
harness == <<rep, num, res>>
report == <<started, verified, printed, observed>>

\* ------------------------------------------------------- string functions
\* str(n) for n >= 0: the decimal digits, as ASCII codes
RECURSIVE Str(_)
Str(n) == IF n < 10 THEN <<48 + n>> ELSE Str(n \div 10) \o <<48 + (n % 10)>>

\* a run of k characters '0'
Zeros(k) == [i \in 1..k |-> 48]

\* format(n, '0<w>'): zero-filled to a minimum width of w, never truncated
ZeroPad(n, w) ==
    LET s == Str(n)
    IN  IF Len(s) >= w THEN s ELSE Zeros(w - Len(s)) \o s

\* len(str(n)) - 1
PadOf(n) == Len(Str(n)) - 1

\* f'col{i:0{col_pad}}'
ColName(i, cpad) == <<99, 111, 108>> \o ZeroPad(i, cpad)

\* f'row{r:0{row_pad}}_col{c:0{col_pad}}'
CellValue(r, c, rpad, cpad) ==
    <<114, 111, 119>> \o ZeroPad(r, rpad) \o <<95, 99, 111, 108>> \o ZeroPad(c, cpad)

\* f'row{number_of_rows-1}_col{number_of_cols-1}'
ExpectedLastVal(nrows, ncols) ==
    <<114, 111, 119>> \o Str(nrows - 1) \o <<95, 99, 111, 108>> \o Str(ncols - 1)

\* String(col_pad + row_pad + 8)
ColumnWidth(cpad, rpad) == cpad + rpad + 8

\* the columns list of setup_db
MakeColumns(ncols, cpad, rpad) ==
    [i \in 1..ncols |-> [name |-> ColName(i - 1, cpad), width |-> ColumnWidth(cpad, rpad)]]

\* the rows list of benchmark: one cell per column, in column order
GenerateRows(nrows, ncols, rpad, cpad) ==
    [r \in 1..nrows |-> [c \in 1..ncols |-> CellValue(r - 1, c - 1, rpad, cpad)]]

\* a < b in the store's binary string order
RECURSIVE LexLess(_, _)
LexLess(a, b) ==
    IF b = <<>> THEN FALSE
    ELSE IF a = <<>> THEN TRUE
    ELSE IF a[1] # b[1] THEN a[1] < b[1]
    ELSE LexLess(Tail(a), Tail(b))

\* ------------------------------------------------------- store operations
\* INSERT of one row
InsertRow(content, row) == content (+) SetToBag({row})

\* one INSERT ... VALUES (...), (...), ... statement carrying all rows of buf
InsertValues(content, buf) ==
    [r \in BagToSet(content) \cup {buf[i] : i \in 1..Len(buf)} |->
        (IF BagIn(r, content) THEN content[r] ELSE 0)
        + Cardinality({i \in 1..Len(buf) : buf[i] = r})]

\* executemany that runs the statement for the first parameter set only
ExecuteMany_FirstOnly(content, buf) ==
    IF buf = <<>> THEN content ELSE InsertRow(content, Head(buf))

\* executemany: the single-row INSERT run once per parameter set of buf
RECURSIVE ExecuteMany(_, _)
ExecuteMany(content, buf) ==
    IF buf = <<>> THEN content
    ELSE ExecuteMany(InsertRow(content, Head(buf)), Tail(buf))

\* delete(table) with a rollback-free outcome that keeps the rows
DeleteAll_Keep(content) == content

\* delete(table): no row is left
DeleteAll(content) == EmptyBag

\* select(func.count()).select_from(table)
CountRows(content) == BagCardinality(content)

\* session.query(table).order_by(table.c[0].desc()).first(); None on no rows
HasRows(content) == BagToSet(content) # {}
LastRow(content) ==
    CHOOSE r \in BagToSet(content) :
        \A q \in BagToSet(content) : ~LexLess(r[1], q[1])

\* assert count == timeit_repeat * timeit_number * number_of_rows
AssertCount(content, nrows, number, repeat) ==
    CountRows(content) = repeat * number * nrows

\* the last-value assertion left out
AssertLast_Skip(content, nrows, ncols) == TRUE

\* assert last_row_val == f'row{number_of_rows-1}_col{number_of_cols-1}'
AssertLast(content, nrows, ncols) ==
    LastRow(content)[ncols] = ExpectedLastVal(nrows, ncols)

\* calls of the timed statement that timeit.repeat has finished
InvocationsDone == rep * timeit_number + num

\* ------------------------------------------------------------------ Init
StaleRow(ncols) == [c \in 1..ncols |-> <<115, 116, 97, 108, 101>>]

Init ==
    /\ number_of_cols \in 1..MaxCols
    /\ number_of_rows \in 0..MaxRows
    /\ timeit_number \in 1..MaxTimeitNumber
    /\ timeit_repeat \in 1..MaxTimeitRepeat
    /\ buffer_size \in 0..MaxBufferSize
    /\ pc = "setup"
    /\ stmt = 1
    /\ col_pad = 0 /\ row_pad = 0
    /\ columns = <<>>
    /\ rows = <<>>
    \* mytable may be left over from an earlier run that stopped early
    /\ \E k \in 0..MaxLeftover :
          /\ tableExists = (k > 0)
          /\ table = [r \in (IF k > 0 THEN {StaleRow(number_of_cols)} ELSE {}) |-> k]
    /\ txn = <<>>
    /\ openSessions = 0
    /\ buffer = <<>> /\ idx = 0
    /\ rep = 0 /\ num = 0 /\ res = 0
    /\ flushLog = <<>>
    /\ commits = 0
    /\ exc = "none"
    /\ started = {} /\ verified = {} /\ printed = {}
    /\ observed = [s \in 1..2 |-> <<FALSE, EmptyBag>>]

\* --------------------------------------------------------------- actions
\* benchmark lines 83-94: pads, setup_db (create_all creates mytable unless
\* it exists), rows
SetupDb ==
    /\ pc = "setup"
    /\ col_pad' = PadOf(number_of_cols)
    /\ row_pad' = PadOf(number_of_rows)
    /\ columns' = MakeColumns(number_of_cols, col_pad', row_pad')
    /\ tableExists' = TRUE
    /\ rows' = GenerateRows(number_of_rows, number_of_cols, row_pad', col_pad')
    /\ pc' = "open"
    /\ UNCHANGED <<config, stmt, table, txn, openSessions, callLocals, harness,
                   exc, report>>

\* with Session(engine) as session: (line 111)
OpenSession ==
    /\ pc = "open"
    /\ openSessions' = openSessions + 1
    /\ txn' = table
    /\ pc' = "clear"
    /\ UNCHANGED <<config, schema, stmt, tableExists, table, callLocals,
                   harness, exc, report>>

\* session.execute(delete(table)) (line 113), then timeit.repeat is entered
ClearTable ==
    /\ pc = "clear"
    /\ txn' = DeleteAll(txn)
    /\ rep' = 0 /\ num' = 0 /\ res' = 0
    /\ started' = started \cup {stmt}
    /\ pc' = "timeit"
    /\ UNCHANGED <<config, schema, stmt, tableExists, table, openSessions,
                   callLocals, exc, verified, printed, observed>>

\* timeit calls the timed statement once more: the insert function starts
TimeitCall ==
    /\ pc = "timeit"
    /\ rep < timeit_repeat
    /\ buffer' = <<>>
    /\ idx' = 0
    /\ flushLog' = <<>>
    /\ commits' = 0
    /\ pc' = "loop"
    /\ UNCHANGED <<config, schema, stmt, tableExists, table, txn, openSessions,
                   harness, exc, report>>

\* the flush condition with > for >=
FlushDue_OffByOne(buf, size) == Len(buf) > size

\* the flush condition of both loops: len(buffer) >= buffer_size
FlushDue(buf, size) == Len(buf) >= size

\* the remainder condition with 1 for 0
RemainderDue_Strict(buf) == Len(buf) > 1

\* the condition of the remainder flush: len(buffer) > 0
RemainderDue(buf) == Len(buf) > 0

\* insert_values_params, one iteration of the for loop (lines 35-40)
ParamsLoop ==
    /\ pc = "loop" /\ stmt = 1
    /\ idx < Len(rows)
    /\ idx' = idx + 1
    /\ LET b == Append(buffer, rows[idx + 1])
       IN  IF FlushDue(b, buffer_size)
           THEN /\ txn' = InsertValues(txn, b)
                /\ flushLog' = Append(flushLog, b)
                /\ buffer' = <<>>
           ELSE /\ buffer' = b
                /\ UNCHANGED <<txn, flushLog>>
    /\ UNCHANGED <<config, schema, pc, stmt, tableExists, table, openSessions,
                   commits, harness, exc, report>>

\* insert_values_params, after the loop (lines 41-44)
ParamsRemainder ==
    /\ pc = "loop" /\ stmt = 1
    /\ idx = Len(rows)
    /\ IF RemainderDue(buffer)
       THEN /\ txn' = InsertValues(txn, buffer)
            /\ flushLog' = Append(flushLog, buffer)
            /\ buffer' = <<>>
       ELSE UNCHANGED <<txn, flushLog, buffer>>
    /\ pc' = "commit"
    /\ UNCHANGED <<config, schema, stmt, tableExists, table, openSessions,
                   idx, commits, harness, exc, report>>

\* the executemany loop without buffer = [] after the flush
ExecutemanyLoop_NoClear ==
    /\ pc = "loop" /\ stmt = 2
    /\ idx < Len(rows)
    /\ idx' = idx + 1
    /\ LET b == Append(buffer, rows[idx + 1])
       IN  IF Len(b) >= buffer_size
           THEN /\ txn' = ExecuteMany(txn, b)
                /\ flushLog' = Append(flushLog, b)
                /\ buffer' = b
           ELSE /\ buffer' = b
                /\ UNCHANGED <<txn, flushLog>>
    /\ UNCHANGED <<config, schema, pc, stmt, tableExists, table, openSessions,
                   commits, harness, exc, report>>

\* insert_values_executemany, one iteration of the for loop (lines 51-55)
ExecutemanyLoop ==
    /\ pc = "loop" /\ stmt = 2
    /\ idx < Len(rows)
    /\ idx' = idx + 1
    /\ LET b == Append(buffer, rows[idx + 1])
       IN  IF FlushDue(b, buffer_size)
           THEN /\ txn' = ExecuteMany(txn, b)
                /\ flushLog' = Append(flushLog, b)
                /\ buffer' = <<>>
           ELSE /\ buffer' = b
                /\ UNCHANGED <<txn, flushLog>>
    /\ UNCHANGED <<config, schema, pc, stmt, tableExists, table, openSessions,
                   commits, harness, exc, report>>

\* insert_values_executemany, after the loop (lines 56-58)
ExecutemanyRemainder ==
    /\ pc = "loop" /\ stmt = 2
    /\ idx = Len(rows)
    /\ IF RemainderDue(buffer)
       THEN /\ txn' = ExecuteMany(txn, buffer)
            /\ flushLog' = Append(flushLog, buffer)
            /\ buffer' = <<>>
       ELSE UNCHANGED <<txn, flushLog, buffer>>
    /\ pc' = "commit"
    /\ UNCHANGED <<config, schema, stmt, tableExists, table, openSessions,
                   idx, commits, harness, exc, report>>

\* session.commit() of either insert function (lines 45, 59); the call
\* returns to timeit, which counts it and records a timing per finished trial
Commit ==
    /\ pc = "commit"
    /\ table' = txn
    /\ commits' = commits + 1
    /\ IF num + 1 = timeit_number
       THEN /\ rep' = rep + 1 /\ num' = 0 /\ res' = res + 1
       ELSE /\ num' = num + 1 /\ UNCHANGED <<rep, res>>
    /\ pc' = "timeit"
    /\ UNCHANGED <<config, schema, stmt, tableExists, txn, openSessions,
                   buffer, idx, flushLog, exc, report>>

\* check_and_clean (lines 62-75), called when timeit.repeat has returned
CheckAndClean ==
    /\ pc = "timeit"
    /\ rep = timeit_repeat
    /\ observed' = [observed EXCEPT ![stmt] = <<TRUE, txn>>]
    /\ IF ~AssertCount(txn, number_of_rows, timeit_number, timeit_repeat)
       THEN /\ exc' = "AssertionError:count" /\ pc' = "raise"
            /\ UNCHANGED <<txn, table, verified>>
       ELSE IF ~HasRows(txn)
       THEN \* last_row is None, last_row[-1] raises
            /\ exc' = "TypeError" /\ pc' = "raise"
            /\ UNCHANGED <<txn, table, verified>>
       ELSE IF ~AssertLast(txn, number_of_rows, number_of_cols)
       THEN /\ exc' = "AssertionError:last" /\ pc' = "raise"
            /\ UNCHANGED <<txn, table, verified>>
       ELSE /\ txn' = DeleteAll(txn)
            /\ table' = DeleteAll(txn)
            /\ verified' = verified \cup {stmt}
            /\ pc' = "print"
            /\ UNCHANGED exc
    /\ UNCHANGED <<config, schema, stmt, tableExists, openSessions,
                   callLocals, harness, started, printed>>

\* the print calls of lines 121-125
PrintResults ==
    /\ pc = "print"
    /\ printed' = printed \cup {stmt}
    /\ pc' = "exit"
    /\ UNCHANGED <<config, schema, stmt, tableExists, table, txn, openSessions,
                   callLocals, harness, exc, started, verified, observed>>

\* the with block of line 111 is left normally: the session is closed and
\* the for loop goes on
SessionExit ==
    /\ pc = "exit"
    /\ openSessions' = openSessions - 1
    /\ txn' = <<>>
    /\ IF stmt < 2
       THEN /\ stmt' = stmt + 1 /\ pc' = "open"
       ELSE /\ pc' = "final" /\ UNCHANGED stmt
    /\ UNCHANGED <<config, schema, tableExists, table, callLocals, harness,
                   exc, report>>

\* leaving the with block by an exception without closing the session
SessionExitRaise_Leak ==
    /\ pc = "raise"
    /\ pc' = "aborted"
    /\ UNCHANGED <<config, schema, stmt, tableExists, table, txn, openSessions,
                   callLocals, harness, exc, report>>

\* a with block is left by an exception: the session is closed (what it had
\* not committed is rolled back) and the exception ends the program
SessionExitRaise ==
    /\ pc = "raise"
    /\ openSessions' = openSessions - 1
    /\ txn' = <<>>
    /\ pc' = "aborted"
    /\ UNCHANGED <<config, schema, stmt, tableExists, table, callLocals,
                   harness, exc, report>>

\* the store rejects a statement of the session (execute, commit) or the drop
StorageError ==
    /\ \/ pc \in {"clear", "loop", "commit", "drop"}
       \/ pc = "timeit" /\ rep = timeit_repeat
    /\ exc' = "StorageError"
    /\ pc' = "raise"
    /\ UNCHANGED <<config, schema, stmt, tableExists, table, txn, openSessions,
                   callLocals, harness, report>>

\* with Session(engine) as session: (line 127)
OpenFinalSession ==
    /\ pc = "final"
    /\ openSessions' = openSessions + 1
    /\ txn' = table
    /\ pc' = "drop"
    /\ UNCHANGED <<config, schema, stmt, tableExists, table, callLocals,
                   harness, exc, report>>

\* the last with block without the drop
DropTable_Keep ==
    /\ pc = "drop"
    /\ pc' = "finalexit"
    /\ UNCHANGED <<config, schema, stmt, tableExists, table, txn, openSessions,
                   callLocals, harness, exc, report>>

\* table.drop(engine) (line 128)
DropTable ==
    /\ pc = "drop"
    /\ tableExists' = FALSE
    /\ table' = EmptyBag
    /\ pc' = "finalexit"
    /\ UNCHANGED <<config, schema, stmt, txn, openSessions, callLocals,
                   harness, exc, report>>

\* the with block of line 127 is left normally; benchmark returns
FinalSessionExit ==
    /\ pc = "finalexit"
    /\ openSessions' = openSessions - 1
    /\ txn' = <<>>
    /\ pc' = "done"
    /\ UNCHANGED <<config, schema, stmt, tableExists, table, callLocals,
                   harness, exc, report>>

Next ==
    \/ SetupDb
    \/ OpenSession
    \/ ClearTable
    \/ TimeitCall
    \/ ParamsLoop
    \/ ParamsRemainder
    \/ ExecutemanyLoop
    \/ ExecutemanyRemainder
    \/ Commit
    \/ CheckAndClean
    \/ PrintResults
    \/ SessionExit
    \/ SessionExitRaise
    \/ StorageError
    \/ OpenFinalSession
    \/ DropTable
    \/ FinalSessionExit

Spec == Init /\ [][Next]_vars

\* ---------------------------------------------------------------- claims
\* the rows of all flushes of the running call, in flush order
RECURSIVE Flatten(_)
Flatten(log) == IF log = <<>> THEN <<>> ELSE Head(log) \o Flatten(Tail(log))

HarnessDone == pc = "timeit" /\ rep = timeit_repeat

\* C1: every finished call of either strategy has added exactly len(rows)
\* rows, so that when the harness has returned the session counts
\* timeit_repeat * timeit_number * number_of_rows rows and the count
\* assertion of check_and_clean never fails.
C1_RowCount ==
    /\ (pc # "setup" => Len(rows) = number_of_rows)
    /\ (pc = "timeit" => CountRows(txn) = InvocationsDone * Len(rows))
    /\ (HarnessDone =>
            CountRows(txn) = timeit_repeat * timeit_number * number_of_rows)
    /\ exc # "AssertionError:count"

C1_Witness ==
    /\ HarnessDone /\ stmt = 2
    /\ number_of_rows = 3 /\ buffer_size = 2
    /\ timeit_number = 2 /\ timeit_repeat = 2
    /\ CountRows(txn) = 12

\* C2: for number_of_rows >= 1 the row check_and_clean selects as last (the
\* greatest first column) is the final generated row, its last column is
\* row<number_of_rows-1>_col<number_of_cols-1>, and the second assertion of
\* check_and_clean holds.
C2_LastRowIsFinalRow ==
    /\ (HarnessDone /\ number_of_rows >= 1 =>
            /\ LastRow(txn) = rows[number_of_rows]
            /\ LastRow(txn)[number_of_cols]
                 = ExpectedLastVal(number_of_rows, number_of_cols))
    /\ exc # "AssertionError:last"

\* C3: run on the same rows with the same buffer_size from the same (empty)
\* content, the two strategies leave the same bag of rows in the table.
C3_SameContent ==
    (observed[1][1] /\ observed[2][1]) => observed[1][2] = observed[2][2]

C3_Witness ==
    /\ observed[1][1] /\ observed[2][1]
    /\ number_of_rows = 3 /\ buffer_size = 2
    /\ CountRows(observed[2][2]) = 3 * timeit_number * timeit_repeat

\* C4: when check_and_clean has returned normally the table is empty and the
\* deletion is committed; every strategy's timed runs start from an empty
\* table and count only their own rows.
C4_CleanAfterCheck ==
    /\ (pc \in {"print", "exit"} => table = EmptyBag /\ txn = EmptyBag)
    /\ (pc = "open" /\ stmt = 2 => table = EmptyBag)
    /\ (pc = "timeit" /\ InvocationsDone = 0 => txn = EmptyBag)
    /\ (pc = "timeit" /\ stmt = 2 =>
            CountRows(txn) = InvocationsDone * number_of_rows)

C4_Witness ==
    /\ pc = "print" /\ stmt = 1
    /\ CountRows(observed[1][2]) = 6
    /\ table = EmptyBag /\ txn = EmptyBag

\* C5: timings of a strategy are printed only after check_and_clean passed
\* both assertions on that strategy's data; when an exception stops a
\* strategy before that, its timings are not printed and no later strategy
\* is started.
C5_VerifiedBeforePrint ==
    /\ \A s \in printed :
          /\ observed[s][1]
          /\ CountRows(observed[s][2])
               = timeit_repeat * timeit_number * number_of_rows
          /\ HasRows(observed[s][2])
          /\ LastRow(observed[s][2])[number_of_cols]
               = ExpectedLastVal(number_of_rows, number_of_cols)
    /\ printed \subseteq verified
    /\ (exc # "none" =>
          /\ pc \in {"raise", "aborted"}
          /\ \A s \in started \ verified :
                /\ s \notin printed
                /\ \A t \in started : t <= s)

C5_Witness ==
    /\ pc = "aborted" /\ exc = "StorageError"
    /\ started = {1, 2} /\ verified = {1} /\ printed = {1}

\* C6 (as stated): when the program has terminated the table no longer
\* exists.
C6_DroppedAtProgramEnd ==
    pc \in {"done", "aborted"} => ~tableExists

\* C6 (amended): when benchmark has returned normally the table has been
\* dropped; when an exception has ended the run the table has not been
\* dropped.
C6_DroppedIffCompleted ==
    /\ (pc = "done" => ~tableExists /\ table = EmptyBag)
    /\ (pc = "aborted" => tableExists)

C6_Witness ==
    pc = "done" /\ printed = {1, 2} /\ ~tableExists

\* C7 (as stated): at every flush the buffer is no longer than buffer_size,
\* for every buffer_size.
C7_FlushWithinBufferSize ==
    \A i \in 1..Len(flushLog) : Len(flushLog[i]) <= buffer_size

\* C7 (amended): for every buffer_size >= 1, at every flush (the remainder
\* flush included) the buffer is no longer than buffer_size.
C7_FlushWithinPositiveBufferSize ==
    buffer_size >= 1 =>
        \A i \in 1..Len(flushLog) : Len(flushLog[i]) <= buffer_size

C7_Witness ==
    /\ pc = "commit" /\ stmt = 1
    /\ buffer_size = 2 /\ number_of_rows = 3
    /\ Len(flushLog) = 2 /\ Len(flushLog[1]) = 2 /\ Len(flushLog[2]) = 1

\* C8: in one call of either strategy the flushes carry the rows in input
\* order, each row once; the buffer is empty after a flush; no flush is
\* empty; there is exactly one commit, after the last flush, with the buffer
\* empty (for no rows: no flush, one commit).
C8_FlushDiscipline ==
    /\ (pc \in {"loop", "commit"} =>
            /\ Flatten(flushLog) \o buffer = SubSeq(rows, 1, idx)
            /\ commits = 0)
    /\ (pc = "commit" => buffer = <<>> /\ Flatten(flushLog) = rows)
    /\ (pc = "timeit" /\ InvocationsDone > 0 =>
            /\ commits = 1
            /\ buffer = <<>>
            /\ Flatten(flushLog) = rows)
    /\ \A i \in 1..Len(flushLog) : flushLog[i] # <<>>

C8_Witness ==
    /\ pc = "timeit" /\ InvocationsDone > 0 /\ stmt = 2
    /\ number_of_rows = 3 /\ buffer_size = 2
    /\ Len(flushLog) = 2 /\ commits = 1 /\ buffer = <<>>

\* C9: every session benchmark opens is closed when its with block is left,
\* normally or by an exception; at most one session is open at any time.
C9_SessionsReleased ==
    /\ openSessions <= 1
    /\ (pc \in {"setup", "open", "final", "done", "aborted"} =>
            openSessions = 0)

C9_Witness ==
    /\ pc = "aborted" /\ exc = "AssertionError:last"
    /\ openSessions = 0

\* C10: every generated cell value fits the declared width of its column.
C10_ValuesFitColumn ==
    pc # "setup" =>
        \A r \in 1..Len(rows) : \A c \in 1..Len(columns) :
            Len(rows[r][c]) <= columns[c].width
====
